---------------------------- MODULE Spec2Model ----------------------------
(***************************************************************************)
(* Model of the burst detector of cont_3sig.py: bin_spectrogram            *)
(* (block averaging), apply_robust_clip (rolling median / MAD clip) and    *)
(* the derivation of the cleaned and burst arrays in the main block.       *)
(*                                                                         *)
(* Arrays.  A 2D numpy array is a record                                   *)
(*    [nrows, ncols, den, cell]                                            *)
(* with cell a function on (0..nrows-1) \X (0..ncols-1), 0-based like the  *)
(* source.  A float cell is the exact rational cell/den; NaN is the cell   *)
(* value NaN.  The raw spectrogram holds the integral intensities that     *)
(* grab_fits.py casts to float32 (den = 1) and NaN padding; a mean over a  *)
(* block of n cells is the block sum over the denominator n.  Floating     *)
(* point rounding is not modelled: arithmetic is exact.                    *)
(*                                                                         *)
(* scipy.ndimage.median_filter is library code: it is modelled as the rank *)
(* window_size // 2 of each reflected row window, defined for every shape  *)
(* (an empty array gives an empty array), and as any element of the window *)
(* when the window holds a NaN.                                            *)
(*                                                                         *)
(* Spec is the whole run (load, bin, clip, derive the outputs), with the   *)
(* arguments of each call drawn from bounded sets; SpecBin is the run up   *)
(* to bin_spectrogram; SpecClip is apply_robust_clip on the arrays without *)
(* missing values; SpecWindow is the run with the window size the          *)
(* parameter block derives.                                                *)
(***************************************************************************)
EXTENDS Integers, Sequences, FiniteSets, TLC

\* ------------------------------------------------------------------ bounds

\* Largest number of frequency rows of a raw spectrogram.
MaxF == 3
\* Largest number of time steps of a raw spectrogram.
MaxT == 4
\* Largest number of cells of a raw spectrogram.
MaxCells == 4
\* Largest raw intensity.
MaxVal == 2
\* Largest window_size handed to apply_robust_clip.
MaxWindow == 5
\* Largest sigma_threshold handed to apply_robust_clip.
MaxSigma == 2
\* Largest number of cells of a binned array handed straight to
\* apply_robust_clip.
ClipMaxCells == 6
\* WINDOW_MINUTES is a fraction num / den, num up to MaxMinuteNum and den up
\* to MaxMinuteDen.
MaxMinuteNum == 4
MaxMinuteDen == 2
\* Largest STEPS_PER_MINUTE.
MaxSteps == 3
\* Largest number of time steps of the raw spectrogram of a run that derives
\* its window.
MaxRunT == 2

\* ------------------------------------------------------------------ values

\* np.nan, the missing marker: a cell value outside the intensity range.
\* Every arithmetic operator below tests for it before computing.
NaN == -1

\* A name that is not bound yet (the array a later step creates).
None == [nrows |-> -1, ncols |-> -1, den |-> 1, cell |-> <<>>]

Positions(array) == (0 .. array.nrows - 1) \X (0 .. array.ncols - 1)

Array(nr, nc, d, f) == [nrows |-> nr, ncols |-> nc, den |-> d, cell |-> f]

RawValues == (0 .. MaxVal) \cup {NaN}

RawShapes == {s \in (1 .. MaxF) \X (1 .. MaxT) : s[1] * s[2] <= MaxCells}

\* Every array np.load can hand to the pipeline, within the bounds.
RawArrays ==
    UNION { { Array(s[1], s[2], 1, f) :
                f \in [(0 .. s[1] - 1) \X (0 .. s[2] - 1) -> RawValues] } :
            s \in RawShapes }

ClipShapes ==
    {s \in (1 .. ClipMaxCells) \X (1 .. ClipMaxCells) :
        s[1] * s[2] <= ClipMaxCells}

\* The arrays without missing values, within the bounds.
ClipArrays ==
    UNION { { Array(s[1], s[2], 1, f) :
                f \in [(0 .. s[1] - 1) \X (0 .. s[2] - 1) -> 0 .. MaxVal] } :
            s \in ClipShapes }

\* The one-row raw arrays without missing values of at most MaxRunT steps.
RunArrays ==
    UNION { { Array(1, n, 1, f) : f \in [{0} \X (0 .. n - 1) -> 0 .. MaxVal] } :
            n \in 1 .. MaxRunT }

\* The values of WINDOW_MINUTES, a float: the fraction num / den.
Minutes == [num : 0 .. MaxMinuteNum, den : 1 .. MaxMinuteDen]

RECURSIVE SumOver(_, _)
\* Sum of f over the finite set S of its arguments.
SumOver(S, f) ==
    IF S = {} THEN 0
    ELSE LET p == CHOOSE q \in S : TRUE
         IN  f[p] + SumOver(S \ {p}, f)

\* -------------------------------------------------------- bin_spectrogram

\* A slip: array[freq_trim:, :], the head dropped instead of the tail.
TrimRowsHead(array, freq_trim) ==
    Array(array.nrows - freq_trim, array.ncols, array.den,
          [p \in (0 .. array.nrows - freq_trim - 1) \X (0 .. array.ncols - 1)
             |-> array.cell[<<p[1] + freq_trim, p[2]>>]])

\* array[:-freq_trim, :]
TrimRows(array, freq_trim) ==
    Array(array.nrows - freq_trim, array.ncols, array.den,
          [p \in (0 .. array.nrows - freq_trim - 1) \X (0 .. array.ncols - 1)
             |-> array.cell[p]])

\* array[:, :-time_trim]
TrimCols(array, time_trim) ==
    Array(array.nrows, array.ncols - time_trim, array.den,
          [p \in (0 .. array.nrows - 1) \X (0 .. array.ncols - time_trim - 1)
             |-> array.cell[p]])

\* A slip: the time remainder taken from the frequency axis (shape[0]).
TrimmedByRowCount(array, freq_factor, time_factor) ==
    LET freq_trim == array.nrows % freq_factor
        a1 == IF freq_trim > 0 THEN TrimRows(array, freq_trim) ELSE array
        time_trim == a1.nrows % time_factor
    IN  IF time_trim > 0 /\ time_trim <= a1.ncols
        THEN TrimCols(a1, time_trim) ELSE a1

\* The array after steps 1 and 2 of bin_spectrogram: both tails trimmed.
Trimmed(array, freq_factor, time_factor) ==
    LET freq_trim == array.nrows % freq_factor
        a1 == IF freq_trim > 0 THEN TrimRows(array, freq_trim) ELSE array
        time_trim == a1.ncols % time_factor
    IN  IF time_trim > 0 THEN TrimCols(a1, time_trim) ELSE a1

\* The cells of `array` that reshape(binned_shape) puts in block (i, j):
\* element (i, a, j, b) of the reshaped array is array[i*ff + a, j*tf + b].
Block(i, j, freq_factor, time_factor) ==
    (i * freq_factor .. i * freq_factor + freq_factor - 1)
        \X (j * time_factor .. j * time_factor + time_factor - 1)

\* A slip: np.nansum-like, a NaN cell counted as 0.
BlockMeanNanAsZero(array, blk) ==
    SumOver(blk, [p \in blk |->
                    IF array.cell[p] = NaN THEN 0 ELSE array.cell[p]])

\* mean over axes 1 and 3 of one block: NaN when a cell of the block is NaN,
\* otherwise the block sum (over the denominator BlockCount).
BlockMean(array, blk) ==
    IF \E p \in blk : array.cell[p] = NaN THEN NaN
    ELSE SumOver(blk, array.cell)

\* A slip: mean over the time axis only (axis=3), the frequency axis summed.
BlockCountTimeOnly(freq_factor, time_factor) == time_factor

\* A slip: one cell too many counted.
BlockCountPlusOne(freq_factor, time_factor) == freq_factor * time_factor + 1

\* The number of cells mean(axis=(1, 3)) divides each block sum by.
BlockCount(freq_factor, time_factor) == freq_factor * time_factor

bin_spectrogram(array, freq_factor, time_factor) ==
    LET a == Trimmed(array, freq_factor, time_factor)
        nr == a.nrows \div freq_factor
        nc == a.ncols \div time_factor
    IN  Array(nr, nc, a.den * BlockCount(freq_factor, time_factor),
              [p \in (0 .. nr - 1) \X (0 .. nc - 1)
                 |-> BlockMean(a, Block(p[1], p[2], freq_factor, time_factor))])

\* ------------------------------------------------------ apply_robust_clip

\* 1.4826 (MAD to one standard deviation), as MadScaleNum / MadScaleDen.
MadScaleNum == 14826
MadScaleDen == 10000
\* The floor 1e-6 of sigma_equivalent, as 1 / FloorDen.
FloorDen == 1000000

\* mode='reflect' of scipy.ndimage: (d c b a | a b c d | d c b a), the row
\* mirrored about its edge, as often as the window needs.
ReflectIndex(i, n) ==
    LET m == i % (2 * n)
    IN  IF m < n THEN m ELSE 2 * n - 1 - m

\* A slip: mode='constant', positions outside the row read as 0.
WindowZeroPadded(array, p, window_size) ==
    [k \in 1 .. window_size |->
        LET c == p[2] - (window_size \div 2) + k - 1
        IN  IF c < 0 \/ c >= array.ncols THEN 0 ELSE array.cell[<<p[1], c>>]]

\* A slip: size=(window_size, 1), the window laid along the frequency axis.
WindowAlongFrequency(array, p, window_size) ==
    [k \in 1 .. window_size |->
        array.cell[<<ReflectIndex(p[1] - (window_size \div 2) + k - 1,
                                  array.nrows),
                     p[2]>>]]

\* The window_size samples of row p[1] centred at column p[2], size=(1, w).
Window(array, p, window_size) ==
    [k \in 1 .. window_size |->
        array.cell[<<p[1],
                     ReflectIndex(p[2] - (window_size \div 2) + k - 1,
                                  array.ncols)>>]]

\* The element of rank window_size // 2 of the sorted window.
Median(win) ==
    LET rank == Len(win) \div 2
    IN  CHOOSE v \in {win[k] : k \in 1 .. Len(win)} :
            /\ Cardinality({k \in 1 .. Len(win) : win[k] < v}) <= rank
            /\ Cardinality({k \in 1 .. Len(win) : win[k] <= v}) > rank

\* What the rank filter can return for one window.  Its selection compares
\* with <, which is false for NaN on either side: with a NaN in the window
\* the element it returns depends on the element order and the build, so
\* every element of the window is a possible result.
MedianOutcomes(win) ==
    IF \E k \in 1 .. Len(win) : win[k] = NaN
    THEN {win[k] : k \in 1 .. Len(win)}
    ELSE {Median(win)}

RECURSIVE CellChoices(_, _)
\* The functions f on D with f[p] \in out[p] for every p.
CellChoices(D, out) ==
    IF D = {} THEN {<<>>}
    ELSE LET p == CHOOSE q \in D : TRUE
         IN  {g @@ (p :> v) : g \in CellChoices(D \ {p}, out), v \in out[p]}

\* scipy.ndimage.median_filter(input, size=(1, window_size), mode='reflect'):
\* the set of arrays it can return (one array when no window holds a NaN).
median_filter(input, window_size) ==
    LET out == [p \in Positions(input) |->
                   MedianOutcomes(Window(input, p, window_size))]
    IN  {Array(input.nrows, input.ncols, input.den, f) :
            f \in CellChoices(Positions(input), out)}

Abs(x) == IF x < 0 THEN -x ELSE x

\* np.abs(spectrogram - rolling_median)
AbsDifference(spectrogram, rolling_med) ==
    Array(spectrogram.nrows, spectrogram.ncols, spectrogram.den,
          [p \in Positions(spectrogram) |->
              IF spectrogram.cell[p] = NaN \/ rolling_med.cell[p] = NaN
              THEN NaN
              ELSE Abs(spectrogram.cell[p] - rolling_med.cell[p])])

\* 1.4826 * rolling_mad, then every cell below 1e-6 set to 1e-6.  The result
\* has the denominator den * FloorDen, over which 1e-6 is den.
SigmaEquivalent(mad) ==
    Array(mad.nrows, mad.ncols, mad.den * FloorDen,
          [p \in Positions(mad) |->
              IF mad.cell[p] = NaN THEN NaN
              ELSE LET sig == MadScaleNum * (FloorDen \div MadScaleDen)
                                  * mad.cell[p]
                   IN  IF sig < mad.den THEN mad.den ELSE sig])

\* A slip: the comparison turned round.
IsOutlierBelow(diff, sigma_threshold, sigma) ==
    Array(diff.nrows, diff.ncols, 1,
          [p \in Positions(diff) |->
              /\ diff.cell[p] # NaN
              /\ sigma.cell[p] # NaN
              /\ diff.cell[p] * FloorDen < sigma_threshold * sigma.cell[p]])

\* A slip: the mask reduced along the time axis, one flag per row.
IsOutlierPerRow(diff, sigma_threshold, sigma) ==
    Array(diff.nrows, 1, 1,
          [p \in (0 .. diff.nrows - 1) \X {0} |->
              \E c \in 0 .. diff.ncols - 1 :
                  /\ diff.cell[<<p[1], c>>] # NaN
                  /\ sigma.cell[<<p[1], c>>] # NaN
                  /\ diff.cell[<<p[1], c>>] * FloorDen
                         > sigma_threshold * sigma.cell[<<p[1], c>>]])

\* difference > sigma_threshold * sigma_equivalent (False where either side
\* is NaN).  diff is over den, sigma over den * FloorDen.
IsOutlier(diff, sigma_threshold, sigma) ==
    Array(diff.nrows, diff.ncols, 1,
          [p \in Positions(diff) |->
              /\ diff.cell[p] # NaN
              /\ sigma.cell[p] # NaN
              /\ diff.cell[p] * FloorDen > sigma_threshold * sigma.cell[p]])

\* The masks apply_robust_clip can return for an odd window_size (one mask
\* when the array holds no NaN).
apply_robust_clip(spectrogram, window_size, sigma_threshold) ==
    UNION { { IsOutlier(AbsDifference(spectrogram, med), sigma_threshold,
                        SigmaEquivalent(mad)) :
                mad \in median_filter(AbsDifference(spectrogram, med),
                                      window_size) } :
            med \in median_filter(spectrogram, window_size) }

\* A slip: the parity test inverted.
RejectsOddWindow(window_size) == window_size % 2 = 1

\* The test `window_size % 2 == 0` that raises ValueError.
RejectsWindow(window_size) == window_size % 2 = 0

\* ------------------------------------------------- cleaned and burst data

\* cleaned_data = np.copy(binned); cleaned_data[outlier_mask] = np.nan
CleanedData(binned, mask) ==
    Array(binned.nrows, binned.ncols, binned.den,
          [p \in Positions(binned) |->
              IF mask.cell[p] THEN NaN ELSE binned.cell[p]])

\* A slip: the mask inverted, the quiet cells kept.
BurstDataInverted(binned, mask) ==
    Array(binned.nrows, binned.ncols, binned.den,
          [p \in Positions(binned) |->
              IF mask.cell[p] THEN NaN ELSE binned.cell[p]])

\* burst_data = np.full_like(binned, np.nan);
\* burst_data[outlier_mask] = binned[outlier_mask]
BurstData(binned, mask) ==
    Array(binned.nrows, binned.ncols, binned.den,
          [p \in Positions(binned) |->
              IF mask.cell[p] THEN binned.cell[p] ELSE NaN])

\* ------------------------------------------------- the window of the run

\* int(num / den): the quotient truncated towards zero.
IntTrunc(num, den) ==
    IF num >= 0 THEN num \div den ELSE -((-num) \div den)

\* original_window_steps = int(WINDOW_MINUTES * STEPS_PER_MINUTE)
OriginalWindowSteps(minutes, steps_per_minute) ==
    IntTrunc(minutes.num * steps_per_minute, minutes.den)

\* int(original_window_steps / TIME_BIN_FACTOR)
BinnedWindowSteps(original_steps, time_factor) ==
    IntTrunc(original_steps, time_factor)

\* A slip: the window left as it is.
LeftAsIs(window_size) == window_size

\* if NEW_WINDOW_SIZE % 2 == 0: NEW_WINDOW_SIZE += 1
MadeOdd(window_size) ==
    IF window_size % 2 = 0 THEN window_size + 1 ELSE window_size

\* ------------------------------------------------- what a call leaves behind

\* The caller's array after bin_spectrogram returned: the two slices bind
\* the local name to views, reshape(...).mean(...) allocates its result, and
\* nothing is written through either.
ArrayAfterBin(array, freq_factor, time_factor) == array

\* The caller's array after apply_robust_clip returned: median_filter, the
\* subtraction and the product allocate their results, and the one in-place
\* write (the 1e-6 floor) goes to sigma_equivalent, the product.
SpectrogramAfterClip(spectrogram, window_size, sigma_threshold) == spectrogram

\* A slip: cleaned_data = binned_spectrogram without np.copy, so that
\* cleaned_data[outlier_mask] = np.nan writes into the binned array.
BinnedAliasedByCleaned(binned, mask) ==
    Array(binned.nrows, binned.ncols, binned.den,
          [p \in Positions(binned) |->
              IF mask.cell[p] THEN NaN ELSE binned.cell[p]])

\* binned_spectrogram after the cleaned and burst arrays are derived:
\* cleaned_data is an np.copy and burst_data an np.full_like, the writes go
\* to those two.
BinnedAfterDerive(binned, mask) == binned

\* outlier_mask after the derivation: it is only used as an index.
MaskAfterDerive(binned, mask) == mask

\* ------------------------------------------------------------------- state

VARIABLES
    pc,                 \* position in the main block
    spectrogram_data,   \* the raw array (np.load)
    FREQ_BIN_FACTOR,
    TIME_BIN_FACTOR,
    binned_spectrogram,
    NEW_WINDOW_SIZE,    \* window_size of the call of apply_robust_clip
    SIGMA_THRESHOLD,
    rolling_median,     \* locals of apply_robust_clip
    difference,
    rolling_mad,
    sigma_equivalent,
    outlier_mask,       \* what apply_robust_clip returned
    cleaned_data,
    burst_data,
    WINDOW_MINUTES,     \* the fraction [num, den]
    STEPS_PER_MINUTE,
    original_window_steps

inputs == <<spectrogram_data, FREQ_BIN_FACTOR, TIME_BIN_FACTOR>>
clip_args == <<NEW_WINDOW_SIZE, SIGMA_THRESHOLD>>
clip_locals == <<rolling_median, difference, rolling_mad, sigma_equivalent>>
outputs == <<cleaned_data, burst_data>>
window_vars == <<WINDOW_MINUTES, STEPS_PER_MINUTE, original_window_steps>>

vars == <<pc, inputs, binned_spectrogram, clip_args, clip_locals,
          outlier_mask, outputs, window_vars>>

Init ==
    /\ pc = "start"
    /\ spectrogram_data = None
    /\ FREQ_BIN_FACTOR = 1
    /\ TIME_BIN_FACTOR = 1
    /\ binned_spectrogram = None
    /\ NEW_WINDOW_SIZE = 1
    /\ SIGMA_THRESHOLD = 1
    /\ rolling_median = None
    /\ difference = None
    /\ rolling_mad = None
    /\ sigma_equivalent = None
    /\ outlier_mask = None
    /\ cleaned_data = None
    /\ burst_data = None
    /\ WINDOW_MINUTES = [num |-> 0, den |-> 1]
    /\ STEPS_PER_MINUTE = 0
    /\ original_window_steps = 0

\* spectrogram_data = np.load(INPUT_FILE), with the binning factors of the run.
Load ==
    /\ pc = "start"
    /\ \E X \in RawArrays : spectrogram_data' = X
    /\ \E f \in 1 .. MaxF + 1 : FREQ_BIN_FACTOR' = f
    /\ \E t \in 1 .. MaxT + 1 : TIME_BIN_FACTOR' = t
    /\ pc' = "loaded"
    /\ UNCHANGED <<binned_spectrogram, clip_args, clip_locals, outlier_mask,
                   outputs, window_vars>>

\* binned_spectrogram = bin_spectrogram(spectrogram_data, ...)
Bin ==
    /\ pc = "loaded"
    /\ binned_spectrogram' =
           bin_spectrogram(spectrogram_data, FREQ_BIN_FACTOR, TIME_BIN_FACTOR)
    /\ spectrogram_data' =
           ArrayAfterBin(spectrogram_data, FREQ_BIN_FACTOR, TIME_BIN_FACTOR)
    /\ pc' = "binned"
    /\ UNCHANGED <<FREQ_BIN_FACTOR, TIME_BIN_FACTOR, clip_args, clip_locals,
                   outlier_mask, outputs, window_vars>>

\* apply_robust_clip(binned_spectrogram, window_size, sigma_threshold) with a
\* window_size the parity test rejects: ValueError, nothing bound or returned.
ClipRaiseWith(window_size, sigma_threshold) ==
    /\ pc = "binned"
    /\ RejectsWindow(window_size)
    /\ NEW_WINDOW_SIZE' = window_size
    /\ SIGMA_THRESHOLD' = sigma_threshold
    /\ pc' = "raised"
    /\ UNCHANGED <<inputs, binned_spectrogram, clip_locals, outlier_mask,
                   outputs, window_vars>>

\* outlier_mask = apply_robust_clip(binned_spectrogram, window_size,
\*                                  sigma_threshold), past the parity test.
ClipReturnWith(window_size, sigma_threshold) ==
    /\ pc = "binned"
    /\ ~RejectsWindow(window_size)
    /\ NEW_WINDOW_SIZE' = window_size
    /\ SIGMA_THRESHOLD' = sigma_threshold
    /\ \E med \in median_filter(binned_spectrogram, window_size) :
         LET diff == AbsDifference(binned_spectrogram, med)
         IN  \E mad \in median_filter(diff, window_size) :
               /\ rolling_median' = med
               /\ difference' = diff
               /\ rolling_mad' = mad
               /\ sigma_equivalent' = SigmaEquivalent(mad)
               /\ outlier_mask' =
                      IsOutlier(diff, sigma_threshold, SigmaEquivalent(mad))
    /\ binned_spectrogram' =
           SpectrogramAfterClip(binned_spectrogram, window_size,
                                sigma_threshold)
    /\ pc' = "clipped"
    /\ UNCHANGED <<inputs, outputs, window_vars>>

\* The windows and thresholds apply_robust_clip is called with.
WindowSizes == 1 .. MaxWindow
SigmaThresholds == 1 .. MaxSigma

ClipRaise ==
    \E w \in WindowSizes : \E s \in SigmaThresholds : ClipRaiseWith(w, s)

ClipReturn ==
    \E w \in WindowSizes : \E s \in SigmaThresholds : ClipReturnWith(w, s)

\* The try block of the main script: cleaned_data and burst_data.
SaveOutputs ==
    /\ pc = "clipped"
    /\ cleaned_data' = CleanedData(binned_spectrogram, outlier_mask)
    /\ burst_data' = BurstData(binned_spectrogram, outlier_mask)
    /\ binned_spectrogram' =
           BinnedAfterDerive(binned_spectrogram, outlier_mask)
    /\ outlier_mask' = MaskAfterDerive(binned_spectrogram, outlier_mask)
    /\ pc' = "saved"
    /\ UNCHANGED <<inputs, clip_args, clip_locals, window_vars>>

Next == Load \/ Bin \/ ClipRaise \/ ClipReturn \/ SaveOutputs

\* The whole run: load, bin, clip, derive the outputs.
Spec == Init /\ [][Next]_vars

NextBin == Load \/ Bin

\* bin_spectrogram alone, applied to every raw array and pair of factors.
SpecBin == Init /\ [][NextBin]_vars

\* The state after bin_spectrogram returned an array without missing values
\* (factors 1, the binned array has the values of the raw one).
InitClip ==
    /\ pc = "binned"
    /\ spectrogram_data \in ClipArrays
    /\ FREQ_BIN_FACTOR = 1
    /\ TIME_BIN_FACTOR = 1
    /\ binned_spectrogram =
           bin_spectrogram(spectrogram_data, FREQ_BIN_FACTOR, TIME_BIN_FACTOR)
    /\ NEW_WINDOW_SIZE = 1
    /\ SIGMA_THRESHOLD = 1
    /\ rolling_median = None
    /\ difference = None
    /\ rolling_mad = None
    /\ sigma_equivalent = None
    /\ outlier_mask = None
    /\ cleaned_data = None
    /\ burst_data = None
    /\ WINDOW_MINUTES = [num |-> 0, den |-> 1]
    /\ STEPS_PER_MINUTE = 0
    /\ original_window_steps = 0

NextClip == ClipRaise \/ ClipReturn

\* apply_robust_clip alone, applied to every array without missing values,
\* window size and threshold.
SpecClip == InitClip /\ [][NextClip]_vars

\* The parameter block of the main script: the window of the run derived
\* from WINDOW_MINUTES, STEPS_PER_MINUTE and TIME_BIN_FACTOR.
Configure ==
    /\ pc = "start"
    /\ \E minutes \in Minutes : \E steps \in 0 .. MaxSteps :
       \E t \in 1 .. MaxT + 1 :
         /\ WINDOW_MINUTES' = minutes
         /\ STEPS_PER_MINUTE' = steps
         /\ TIME_BIN_FACTOR' = t
         /\ original_window_steps' = OriginalWindowSteps(minutes, steps)
         /\ NEW_WINDOW_SIZE' =
                MadeOdd(BinnedWindowSteps(OriginalWindowSteps(minutes, steps),
                                          t))
    /\ pc' = "configured"
    /\ UNCHANGED <<spectrogram_data, FREQ_BIN_FACTOR, binned_spectrogram,
                   SIGMA_THRESHOLD, clip_locals, outlier_mask, outputs>>

\* spectrogram_data = np.load(INPUT_FILE), after the parameter block.
LoadConfigured ==
    /\ pc = "configured"
    /\ \E X \in RunArrays : spectrogram_data' = X
    /\ pc' = "loaded"
    /\ UNCHANGED <<FREQ_BIN_FACTOR, TIME_BIN_FACTOR, binned_spectrogram,
                   clip_args, clip_locals, outlier_mask, outputs, window_vars>>

\* The call of the main script: apply_robust_clip(binned_spectrogram,
\* NEW_WINDOW_SIZE, SIGMA_THRESHOLD), which raises or returns.
MainClip ==
    IF RejectsWindow(NEW_WINDOW_SIZE)
    THEN ClipRaiseWith(NEW_WINDOW_SIZE, SIGMA_THRESHOLD)
    ELSE ClipReturnWith(NEW_WINDOW_SIZE, SIGMA_THRESHOLD)

NextWindow == Configure \/ LoadConfigured \/ Bin \/ MainClip

\* The run with the window it derives: parameter block, load, bin, clip.
SpecWindow == Init /\ [][NextWindow]_vars

\* ------------------------------------------------------------- properties

X == spectrogram_data
B == binned_spectrogram
Binned == pc \in {"binned", "raised", "clipped", "saved"}
Clipped == pc \in {"clipped", "saved"}

\* The cells of X that lie in the rows and columns bin_spectrogram trims:
\* the last (F mod f) rows and the last (T mod t) columns.
TailCells ==
    {p \in Positions(X) :
        \/ p[1] >= X.nrows - (X.nrows % FREQ_BIN_FACTOR)
        \/ p[2] >= X.ncols - (X.ncols % TIME_BIN_FACTOR)}

\* The f*t cells X[i*f .. i*f+f-1, j*t .. j*t+t-1] of output cell q = (i, j).
SourceBlock(q) ==
    {p \in Positions(X) :
        /\ p[1] \div FREQ_BIN_FACTOR = q[1]
        /\ p[2] \div TIME_BIN_FACTOR = q[2]}

\* C1: bin_spectrogram(X, f, t) has the shape (F // f, T // t), one cell per
\* position of that shape, also when a factor exceeds its axis (length 0);
\* the call is defined for every input, it never fails.
C1_ShapeLaw ==
    /\ pc = "loaded" => ENABLED Bin
    /\ Binned =>
         /\ B.nrows = X.nrows \div FREQ_BIN_FACTOR
         /\ B.ncols = X.ncols \div TIME_BIN_FACTOR
         /\ DOMAIN B.cell =
                (0 .. (X.nrows \div FREQ_BIN_FACTOR) - 1)
                    \X (0 .. (X.ncols \div TIME_BIN_FACTOR) - 1)

\* C1 witness: a factor larger than its axis collapsed that axis to length 0
\* while the other axis kept F // f > 0 cells.
C1_Witness ==
    /\ pc = "binned"
    /\ FREQ_BIN_FACTOR > X.nrows
    /\ B.nrows = 0
    /\ TIME_BIN_FACTOR = 2
    /\ B.ncols = 2

\* C2: output cell (i, j) is the mean (block sum over f*t) of exactly the f*t
\* cells X[i*f .. i*f+f-1, j*t .. j*t+t-1], so rows and columns are only ever
\* dropped at the high-index end; the cells of the last (F mod f) rows and
\* (T mod t) columns lie in no block and their values change no output cell.
C2_BlockMean ==
    pc = "binned" =>
      /\ B.den = X.den * FREQ_BIN_FACTOR * TIME_BIN_FACTOR
      /\ \A q \in Positions(B) :
           /\ Cardinality(SourceBlock(q)) = FREQ_BIN_FACTOR * TIME_BIN_FACTOR
           /\ SourceBlock(q) \cap TailCells = {}
           /\ B.cell[q] = IF \E p \in SourceBlock(q) : X.cell[p] = NaN
                          THEN NaN
                          ELSE SumOver(SourceBlock(q), X.cell)
      /\ \A p \in TailCells : \A v \in RawValues :
           bin_spectrogram([X EXCEPT !.cell[p] = v],
                           FREQ_BIN_FACTOR, TIME_BIN_FACTOR) = B

\* C2 witness: of three rows binned by 2 the last one (value 1) is trimmed
\* and the surviving block is the mean 2/2 of the first two rows (0 and 2).
C2_Witness ==
    /\ pc = "binned"
    /\ X.nrows = 3 /\ FREQ_BIN_FACTOR = 2
    /\ X.cell[<<0, 0>>] = 0 /\ X.cell[<<1, 0>>] = 2 /\ X.cell[<<2, 0>>] = 1
    /\ B.nrows = 1 /\ B.ncols = 1
    /\ B.cell[<<0, 0>>] = 2 /\ B.den = 2

\* C3: bin_spectrogram(X, 1, 1) equals X: same shape, same value in every cell.
C3_IdentityBinning ==
    (Binned /\ FREQ_BIN_FACTOR = 1 /\ TIME_BIN_FACTOR = 1) =>
      /\ B.nrows = X.nrows
      /\ B.ncols = X.ncols
      /\ B.den = X.den
      /\ \A p \in Positions(X) : B.cell[p] = X.cell[p]

\* C3 witness: a 2 x 2 array with different cells binned by (1, 1).
C3_Witness ==
    /\ pc = "binned"
    /\ FREQ_BIN_FACTOR = 1 /\ TIME_BIN_FACTOR = 1
    /\ X.nrows = 2 /\ X.ncols = 2
    /\ X.cell[<<0, 0>>] = 1 /\ X.cell[<<1, 1>>] = 2
    /\ B = X

C5_MissingPropagation ==
    pc = "binned" =>
      /\ \A q \in Positions(B) :
           (\E p \in SourceBlock(q) : X.cell[p] = NaN) => B.cell[q] = NaN
      /\ (\A p \in Positions(X) : X.cell[p] = NaN => p \in TailCells) =>
           \A q \in Positions(B) : B.cell[q] # NaN

\* C5 witness: one block holds a NaN beside a number and its output is NaN,
\* while the trimmed tail holds a NaN too.
C5_Witness ==
    /\ pc = "binned"
    /\ X.nrows = 1 /\ X.ncols = 3
    /\ FREQ_BIN_FACTOR = 1 /\ TIME_BIN_FACTOR = 2
    /\ X.cell[<<0, 0>>] = 2 /\ X.cell[<<0, 1>>] = NaN /\ X.cell[<<0, 2>>] = NaN
    /\ B.cell[<<0, 0>>] = NaN

\* C5, second case: the only NaN of X lies in the trimmed tail and the
\* output cell is a number.
C5_TailWitness ==
    /\ pc = "binned"
    /\ X.nrows = 1 /\ X.ncols = 3
    /\ FREQ_BIN_FACTOR = 1 /\ TIME_BIN_FACTOR = 2
    /\ X.cell[<<0, 0>>] = 2 /\ X.cell[<<0, 1>>] = 1 /\ X.cell[<<0, 2>>] = NaN
    /\ B.cell[<<0, 0>>] = 3

\* C6: with an even window_size apply_robust_clip raises before it binds a
\* median, a difference, a MAD or a mask and returns nothing; with an odd
\* window_size it raises nothing and returns a mask.
C6_OddWindowRejection ==
    /\ pc = "binned" =>
         \A w \in WindowSizes : \A s \in SigmaThresholds :
           /\ w % 2 = 0 =>
                ENABLED ClipRaiseWith(w, s) /\ ~ENABLED ClipReturnWith(w, s)
           /\ w % 2 = 1 =>
                ENABLED ClipReturnWith(w, s) /\ ~ENABLED ClipRaiseWith(w, s)
    /\ pc = "raised" =>
         /\ NEW_WINDOW_SIZE % 2 = 0
         /\ rolling_median = None
         /\ difference = None
         /\ rolling_mad = None
         /\ sigma_equivalent = None
         /\ outlier_mask = None
    /\ Clipped =>
         /\ NEW_WINDOW_SIZE % 2 = 1
         /\ outlier_mask # None

\* C6 witness: window_size 4 was rejected on a non-empty binned array.
C6_Witness ==
    /\ pc = "raised"
    /\ NEW_WINDOW_SIZE = 4
    /\ B.nrows > 0 /\ B.ncols > 0
    /\ outlier_mask = None

\* C6, second case: window_size 5 returned a mask.
C6_OddWitness ==
    /\ pc = "clipped"
    /\ NEW_WINDOW_SIZE = 5
    /\ B.nrows > 0 /\ B.ncols > 0
    /\ outlier_mask # None

Thresholds == 0 .. MaxSigma + 2

\* C7: for the binned array and window of the call, a cell flagged with a
\* threshold s2 is flagged with every threshold s1 <= s2: the returned mask
\* contains the mask of every larger threshold and is contained in the mask
\* of every smaller one.
C7_MonotonicThreshold ==
    Clipped =>
      \A s \in Thresholds : \A p \in Positions(B) :
        LET other == IsOutlier(difference, s, sigma_equivalent)
        IN  /\ SIGMA_THRESHOLD <= s => (other.cell[p] => outlier_mask.cell[p])
            /\ s <= SIGMA_THRESHOLD => (outlier_mask.cell[p] => other.cell[p])

\* C7 witness: a cell flagged at threshold 1 is no longer flagged at 2, and
\* a cell with a zero MAD stays flagged.
C7_Witness ==
    /\ pc = "clipped"
    /\ SIGMA_THRESHOLD = 1
    /\ \E p \in Positions(B) :
         /\ outlier_mask.cell[p]
         /\ rolling_mad.cell[p] > 0
         /\ ~IsOutlier(difference, 2, sigma_equivalent).cell[p]

\* The rows of the binned array whose samples all hold one number.
ConstantRows ==
    {r \in 0 .. B.nrows - 1 :
        /\ B.ncols > 0
        /\ \A c \in 0 .. B.ncols - 1 :
             B.cell[<<r, c>>] # NaN /\ B.cell[<<r, c>>] = B.cell[<<r, 0>>]}

\* C8 as stated: on a constant row rolling_median and rolling_mad are 0 at
\* every position and no pixel of the row is flagged.
C8_AsStated ==
    Clipped =>
      \A r \in ConstantRows : \A c \in 0 .. B.ncols - 1 :
        /\ rolling_median.cell[<<r, c>>] = 0
        /\ rolling_mad.cell[<<r, c>>] = 0
        /\ ~outlier_mask.cell[<<r, c>>]

\* C8 amended: on a row whose samples all hold the same number v, for every
\* odd window (also one longer than the row), rolling_median is v at every
\* position, difference and rolling_mad are 0, sigma_equivalent is the floor
\* 1e-6, and no pixel of the row is flagged for any threshold >= 0.
C8_ConstantRow ==
    Clipped =>
      \A r \in ConstantRows : \A c \in 0 .. B.ncols - 1 :
        /\ rolling_median.cell[<<r, c>>] = B.cell[<<r, 0>>]
        /\ difference.cell[<<r, c>>] = 0
        /\ rolling_mad.cell[<<r, c>>] = 0
        /\ sigma_equivalent.cell[<<r, c>>] = B.den
        /\ sigma_equivalent.den = B.den * FloorDen
        /\ ~outlier_mask.cell[<<r, c>>]
        /\ \A s \in Thresholds :
             ~IsOutlier(difference, s, sigma_equivalent).cell[<<r, c>>]

\* C8 witness: a constant row of two samples of value 2 under a window of 5,
\* longer than the row.
C8_Witness ==
    /\ pc = "clipped"
    /\ NEW_WINDOW_SIZE = 5
    /\ B.ncols = 2
    /\ 0 \in ConstantRows
    /\ B.cell[<<0, 0>>] = 2 /\ B.den = 1
    /\ rolling_median.cell[<<0, 1>>] = 2

\* C9: for every cell whose binned value is not NaN, cleaned is NaN iff the
\* mask is True, burst is NaN iff the mask is False (so exactly one of the two
\* is NaN), and the other one equals the binned value.
C9_Complementarity ==
    pc = "saved" =>
      /\ cleaned_data.den = B.den
      /\ burst_data.den = B.den
      /\ \A p \in Positions(B) :
           B.cell[p] # NaN =>
             /\ (cleaned_data.cell[p] = NaN) <=> outlier_mask.cell[p]
             /\ (burst_data.cell[p] = NaN) <=> ~outlier_mask.cell[p]
             /\ (cleaned_data.cell[p] = NaN) # (burst_data.cell[p] = NaN)
             /\ cleaned_data.cell[p] # NaN => cleaned_data.cell[p] = B.cell[p]
             /\ burst_data.cell[p] # NaN => burst_data.cell[p] = B.cell[p]

\* C9 witness: one row with a flagged cell (kept in burst, NaN in cleaned)
\* and an unflagged cell (kept in cleaned, NaN in burst).
C9_Witness ==
    /\ pc = "saved"
    /\ \E p, q \in Positions(B) :
         /\ B.cell[p] # NaN /\ B.cell[q] # NaN
         /\ outlier_mask.cell[p] /\ ~outlier_mask.cell[q]
         /\ burst_data.cell[p] = B.cell[p] /\ cleaned_data.cell[p] = NaN
         /\ cleaned_data.cell[q] = B.cell[q] /\ burst_data.cell[q] = NaN

\* C10: the mask apply_robust_clip returns has the shape of its input, one
\* boolean per cell.
C10_MaskShape ==
    Clipped =>
      /\ outlier_mask.nrows = B.nrows
      /\ outlier_mask.ncols = B.ncols
      /\ DOMAIN outlier_mask.cell = Positions(B)
      /\ \A p \in Positions(B) : outlier_mask.cell[p] \in BOOLEAN

\* C10 witness: a mask of shape (1, 4) for a binned array of shape (1, 4),
\* with a flagged and an unflagged cell.
C10_Witness ==
    /\ pc = "clipped"
    /\ B.nrows = 1 /\ B.ncols = 4
    /\ outlier_mask.nrows = 1 /\ outlier_mask.ncols = 4
    /\ NEW_WINDOW_SIZE = 3
    /\ \E p, q \in Positions(B) : outlier_mask.cell[p] /\ ~outlier_mask.cell[q]

\* C11: no step changes an array it is given: once loaded the raw
\* spectrogram keeps its value through bin_spectrogram and everything after,
\* once created the binned spectrogram keeps its value through
\* apply_robust_clip and the derivation of cleaned and burst, and once
\* returned the outlier mask keeps its value.
C11_InputsUnchanged ==
    [][ /\ pc # "start" => spectrogram_data' = spectrogram_data
        /\ Binned => binned_spectrogram' = binned_spectrogram
        /\ Clipped => outlier_mask' = outlier_mask ]_vars

\* C11 witness: the run is over; the raw array is still the one-row array
\* that was loaded, and the derivation wrote a NaN into cleaned where the
\* binned array still holds its number.
C11_Witness ==
    /\ pc = "saved"
    /\ X.nrows = 1 /\ X.ncols = 3
    /\ X.cell[<<0, 2>>] = MaxVal
    /\ \E p \in Positions(B) :
         /\ outlier_mask.cell[p]
         /\ cleaned_data.cell[p] = NaN
         /\ B.cell[p] # NaN
         /\ burst_data.cell[p] = B.cell[p]

NoMissing(array) == \A p \in Positions(array) : array.cell[p] # NaN

RECURSIVE Reflected(_, _)
\* The column that column t of a row of n samples stands for, the row being
\* continued on both sides by its mirror image about the edge
\* (... b a | a b c | c b ...).
Reflected(t, n) ==
    IF t < 0 THEN Reflected(-t - 1, n)
    ELSE IF t >= n THEN Reflected(2 * n - 1 - t, n)
    ELSE t

\* The columns of the window of NEW_WINDOW_SIZE samples centred at t.
WindowColumns(t) ==
    (t - (NEW_WINDOW_SIZE - 1) \div 2) .. (t + (NEW_WINDOW_SIZE - 1) \div 2)

\* The median of the values f[c], c over the odd number of columns S: at
\* most half of the samples lie below it and at most half above.
MedianOver(S, f) ==
    CHOOSE v \in {f[c] : c \in S} :
        /\ 2 * Cardinality({c \in S : f[c] < v}) < Cardinality(S)
        /\ 2 * Cardinality({c \in S : f[c] > v}) < Cardinality(S)

\* med[row, t], as a numerator over B.den.
Med(row, t) ==
    MedianOver(WindowColumns(t),
               [c \in WindowColumns(t) |->
                   B.cell[<<row, Reflected(c, B.ncols)>>]])

\* |B - med| at [row, t], t reflected into the row.
Dev(row, t) ==
    LET c == Reflected(t, B.ncols)
    IN  Abs(B.cell[<<row, c>>] - Med(row, c))

\* mad[row, t], as a numerator over B.den.
Mad(row, t) ==
    MedianOver(WindowColumns(t), [c \in WindowColumns(t) |-> Dev(row, c)])

Max(a, b) == IF a >= b THEN a ELSE b

\* |B - med| > sigma_threshold * max(1.4826 * mad, 1e-6), both sides
\* multiplied by B.den * FloorDen (1.4826 * FloorDen is 1482600).
FlagRule(row, t) ==
    Dev(row, t) * FloorDen
        > SIGMA_THRESHOLD
            * Max((MadScaleNum * (FloorDen \div MadScaleDen)) * Mad(row, t),
                  B.den)

\* B with the cell at q set to v.
BWith(q, v) == [B EXCEPT !.cell[q] = v]

\* C12: for a binned array without missing values the mask returned flags
\* the cell (row, t) exactly when |B - med| > sigma_threshold *
\* max(1.4826 * mad, 1e-6), med and mad being the medians over the window
\* of the same row centred at t with the row reflected about its edges; and
\* with any one cell given another value, every mask the call can return
\* has the same flags in all the other rows.
C12_FlagRule ==
    (Clipped /\ NoMissing(B)) =>
        /\ \A p \in Positions(B) :
               outlier_mask.cell[p] <=> FlagRule(p[1], p[2])
        /\ \A q \in Positions(B) : \A v \in 0 .. MaxVal * B.den :
               \A mask \in apply_robust_clip(BWith(q, v), NEW_WINDOW_SIZE,
                                             SIGMA_THRESHOLD) :
                   \A p \in Positions(B) :
                       p[1] # q[1] => mask.cell[p] = outlier_mask.cell[p]

\* C12 witness: a mask of two rows; in one row a cell is flagged over a
\* flat window (the 1e-6 floor decides), in the other a cell above its
\* median is not flagged because the MAD of its window is positive.
C12_Witness ==
    /\ Clipped
    /\ NoMissing(B)
    /\ B.nrows = 2
    /\ \E p \in Positions(B) : \E q \in Positions(B) :
         /\ p[1] # q[1]
         /\ outlier_mask.cell[p]
         /\ rolling_mad.cell[p] = 0
         /\ ~outlier_mask.cell[q]
         /\ difference.cell[q] > 0
         /\ rolling_mad.cell[q] > 0

\* window_minutes * steps_per_minute / time_factor as the fraction
\* QuotientNum / QuotientDen.
QuotientNum == WINDOW_MINUTES.num * STEPS_PER_MINUTE
QuotientDen == WINDOW_MINUTES.den * TIME_BIN_FACTOR

\* The value the parity test of the parameter block looks at.
Intermediate == original_window_steps \div TIME_BIN_FACTOR

\* The odd integers among which the nearest one is looked for.
OddIntegers == {o \in (-1) .. (QuotientNum + 2) : o % 2 = 1}

\* C13: the window the parameter block derives is a positive odd integer,
\* no odd integer is nearer to window_minutes * steps_per_minute /
\* time_factor, an even intermediate value is incremented by one and an odd
\* one kept, and the call of apply_robust_clip with it does not raise.
C13_DerivedWindow ==
    pc # "start" =>
        /\ NEW_WINDOW_SIZE >= 1
        /\ NEW_WINDOW_SIZE % 2 = 1
        /\ \A o \in OddIntegers :
               Abs(NEW_WINDOW_SIZE * QuotientDen - QuotientNum)
                   <= Abs(o * QuotientDen - QuotientNum)
        /\ Intermediate % 2 = 0 => NEW_WINDOW_SIZE = Intermediate + 1
        /\ Intermediate % 2 = 1 => NEW_WINDOW_SIZE = Intermediate
        /\ ~RejectsWindow(NEW_WINDOW_SIZE)
        /\ pc # "raised"

\* C13 witness: a fractional number of steps was truncated, the binned
\* window came out even and positive, was incremented, and the call of
\* apply_robust_clip with it returned a mask.
C13_Witness ==
    /\ pc = "clipped"
    /\ QuotientNum % WINDOW_MINUTES.den # 0
    /\ Intermediate > 0
    /\ Intermediate % 2 = 0
    /\ NEW_WINDOW_SIZE = Intermediate + 1
    /\ outlier_mask.ncols > 0

=============================================================================
